---- MODULE Spec2Model ----
(***************************************************************************)
(* A model of the e-commerce microservices demo:                           *)
(*   - the API gateway (Express middleware stack, JWT gate, proxies),       *)
(*   - the product service (in-memory catalog),                             *)
(*   - the cart service (Redis-backed carts, product lookups).              *)
(*                                                                         *)
(* Strings that the code inspects (URLs, the Authorization header) are      *)
(* sequences of tokens, so that prefix matching, regex replacement and      *)
(* split(' ') are computed rather than assumed.                             *)
(***************************************************************************)
EXTENDS Integers, Sequences, FiniteSets, TLC

VARIABLES
    gwReq,      \* gateway: the request being handled [method, url, authorization]
    gwLayer,    \* gateway: index in the middleware stack of the current layer
    gwStage,    \* gateway: "idle" | "handle" | "proxy" | "upstream" | "done"
    gwRes,      \* gateway: the response object (res)
    gwUser,     \* gateway: (req as any).user
    gwLog,      \* gateway: what the logging middleware has printed
    gwOut,      \* gateway: the outbound request the proxy issued
    gwAuth,     \* gateway: what authenticateToken did for this request
    gwUpRes,    \* gateway: the response the backend returned to the proxy
    up,         \* reachability of the backend services
    products,   \* product service: the in-memory catalog (let products)
    pRes,       \* product service: the last request handled and its response
    pOps,       \* product service: number of catalog writes handled so far
    redis,      \* cart service: the Redis keys cart:<userId>, value and expiry
    creq,       \* cart service: the requests in flight, one per slot
    now         \* seconds since the services started

gwVars == <<gwReq, gwLayer, gwStage, gwRes, gwUser, gwLog, gwOut, gwAuth, gwUpRes>>

prodVars == <<products, pRes, pOps>>

cartVars == <<redis, creq, now>>

vars == <<gwVars, up, prodVars, cartVars>>

----------------------------------------------------------------------------
(* Sequence helpers *)

IsPrefix(p, s) == Len(p) <= Len(s) /\ SubSeq(s, 1, Len(p)) = p

Drop(s, n) == SubSeq(s, n + 1, Len(s))

\* index of the first occurrence of token t in s, or Len(s)+1
RECURSIVE IndexOf(_, _, _)
IndexOf(s, t, i) ==
    IF i > Len(s) THEN Len(s) + 1
    ELSE IF s[i] = t THEN i
    ELSE IndexOf(s, t, i + 1)

\* String.prototype.split(sep): the words between separator tokens
RECURSIVE Split(_, _)
Split(s, sep) ==
    LET i == IndexOf(s, sep, 1)
    IN  IF i > Len(s) THEN <<s>>
        ELSE <<SubSeq(s, 1, i - 1)>> \o Split(Drop(s, i), sep)

----------------------------------------------------------------------------
(* Gateway: configuration *)

USER_SERVICE_URL == "user-service"

PRODUCT_SERVICE_URL == "product-service"

Services == {USER_SERVICE_URL, PRODUCT_SERVICE_URL}

Methods == {"GET", "HEAD", "POST", "PUT", "DELETE", "PATCH", "OPTIONS"}

\* req.path: the url up to the query string
PathOf(url) == SubSeq(url, 1, IndexOf(url, "?", 1) - 1)

QueryOf(url) == Drop(url, IndexOf(url, "?", 1) - 1)

ApiUsers == <<"/", "api", "/", "users">>

ApiProducts == <<"/", "api", "/", "products">>

\* the request urls the model sends to the gateway
Urls ==
    { <<"/", "health">>,
      <<"/", "api", "/", "unknown">>,
      ApiUsers,
      ApiUsers \o <<"/", "register">>,
      ApiUsers \o <<"/", "login">>,
      ApiUsers \o <<"/", "profile">>,
      ApiUsers \o <<"/", "profile", "?", "full=1">>,
      ApiUsers \o <<"/", "orders">>,
      ApiUsers \o <<"X">>,
      ApiProducts,
      ApiProducts \o <<"/", "1">>,
      ApiProducts \o <<"?", "category=x">>,
      ApiProducts \o <<"X">> }

\* Authorization header values; <<>> is the absent (or empty) header
AuthHeaders ==
    { <<>>,
      <<"Bearer">>,
      <<"Bearer", " ">>,
      <<"Bearer", " ", "good">>,
      <<"Bearer", " ", "expired">>,
      <<"Bearer", " ", " ", "good">>,
      <<"Basic", " ", "good">>,
      <<"Basic", " ", "creds">>,
      <<"good">> }

\* the tokens jwt.verify accepts under JWT_SECRET at the time of the request
ValidTokens == { <<"good">> }

HeaderNames == {"access-control-allow-origin", "content-type"}

NoHeaders == [h \in HeaderNames |-> ""]

NoBody == [error |-> "", path |-> <<>>, status |-> "", service |-> "", raw |-> ""]

NoOut == [target |-> "none", method |-> "", url |-> <<>>]

NoRes == [sent |-> 0, status |-> 0, headers |-> NoHeaders, body |-> NoBody]

NoUpRes == [status |-> 0, headers |-> NoHeaders, body |-> ""]

\* what a backend may answer to a proxied request
BackendStatuses == {200, 404}

BackendBodies == {"b1", "b2"}

BackendHeaders ==
    { [h \in HeaderNames |-> IF h = "content-type" THEN "application/json" ELSE acao] :
        acao \in {"", "*", "https://shop.example"} }

----------------------------------------------------------------------------
(* Gateway: the Express middleware stack, in registration order *)

Stack == <<
    [h |-> "cors",          mount |-> TRUE,  method |-> "ALL",    path |-> <<>>,        wild |-> FALSE],
    [h |-> "logger",        mount |-> TRUE,  method |-> "ALL",    path |-> <<>>,        wild |-> FALSE],
    [h |-> "health",        mount |-> FALSE, method |-> "GET",    path |-> <<"/", "health">>, wild |-> FALSE],
    [h |-> "userProxy",     mount |-> TRUE,  method |-> "ALL",    path |-> ApiUsers,    wild |-> FALSE],
    [h |-> "productGet",    mount |-> FALSE, method |-> "GET",    path |-> ApiProducts, wild |-> TRUE],
    [h |-> "productAuth",   mount |-> FALSE, method |-> "POST",   path |-> ApiProducts, wild |-> TRUE],
    [h |-> "productAuth",   mount |-> FALSE, method |-> "PUT",    path |-> ApiProducts, wild |-> TRUE],
    [h |-> "productAuth",   mount |-> FALSE, method |-> "DELETE", path |-> ApiProducts, wild |-> TRUE],
    [h |-> "notFound",      mount |-> TRUE,  method |-> "ALL",    path |-> <<>>,        wild |-> FALSE] >>

\* mutant: a mount that matches on the bare prefix, without the path boundary
LayerMatches_NoBoundary(l, method, path) ==
    IF l.mount
    THEN IsPrefix(l.path, path)
    ELSE /\ (l.method = method \/ (method = "HEAD" /\ l.method = "GET"))
         /\ IF l.wild THEN IsPrefix(l.path, path) ELSE path = l.path

\* Express: app.use(path, ..) matches the path and everything below it, for
\* any method; app.get/post/put/delete(path*) match one method (HEAD falls
\* back to the GET route) and every path that starts with the pattern.
LayerMatches(l, method, path) ==
    IF l.mount
    THEN /\ IsPrefix(l.path, path)
         /\ (Len(path) = Len(l.path) \/ path[Len(l.path) + 1] = "/")
    ELSE /\ (l.method = method \/ (method = "HEAD" /\ l.method = "GET"))
         /\ IF l.wild THEN IsPrefix(l.path, path) ELSE path = l.path

\* next(): the first layer at or after `from` that matches the request
NextLayer(from, method, path) ==
    CHOOSE i \in from..Len(Stack) :
        /\ LayerMatches(Stack[i], method, path)
        /\ \A j \in from..(i - 1) : ~LayerMatches(Stack[j], method, path)

Handler == IF gwLayer \in 1..Len(Stack) THEN Stack[gwLayer].h ELSE "none"

CallNext == NextLayer(gwLayer + 1, gwReq.method, PathOf(gwReq.url))

\* res.on('finish') of the logging middleware: prints only if it was registered
FinishLog == [gwLog EXCEPT !.out = gwLog.in]

\* res.status(s).json(b)
Json(s, b) ==
    [sent |-> gwRes.sent + 1,
     status |-> s,
     headers |-> [gwRes.headers EXCEPT !["content-type"] = "application/json"],
     body |-> b]

\* http-proxy-middleware pathRewrite: the first rule whose regex matches the
\* url replaces the match; no matching rule leaves the url as it is
RECURSIVE PathRewrite(_, _)
PathRewrite(rules, url) ==
    IF rules = <<>> THEN url
    ELSE IF IsPrefix(rules[1].from, url)
         THEN rules[1].to \o Drop(url, Len(rules[1].from))
         ELSE PathRewrite(Tail(rules), url)

\* mutant: the rule for /api/users/profile is missing
UserPathRewrite_NoProfile == <<
    [from |-> ApiUsers \o <<"/", "register">>, to |-> <<"/", "register">>],
    [from |-> ApiUsers \o <<"/", "login">>,    to |-> <<"/", "login">>] >>

UserPathRewrite == <<
    [from |-> ApiUsers \o <<"/", "register">>, to |-> <<"/", "register">>],
    [from |-> ApiUsers \o <<"/", "login">>,    to |-> <<"/", "login">>],
    [from |-> ApiUsers \o <<"/", "profile">>,  to |-> <<"/", "profile">>] >>

\* mutant: the replacement is misspelt
ProductPathRewrite_Typo == <<
    [from |-> ApiProducts, to |-> <<"/", "product">>] >>

ProductPathRewrite == <<
    [from |-> ApiProducts, to |-> <<"/", "products">>] >>

\* createProxyMiddleware({target, pathRewrite}): issue the outbound request
\* (the middleware rewrites req.originalUrl, so the mount path is still there)
ProxyRequest(target, rules) ==
    [target |-> target, method |-> gwReq.method, url |-> PathRewrite(rules, gwReq.url)]

----------------------------------------------------------------------------
(* Gateway: actions *)

\* a client sends a request; Express starts at the top of the stack
Receive ==
    /\ gwStage = "idle"
    /\ \E m \in Methods, u \in Urls, a \in AuthHeaders :
          /\ gwReq' = [method |-> m, url |-> u, authorization |-> a]
          /\ gwLayer' = NextLayer(1, m, PathOf(u))
    /\ gwStage' = "handle"
    /\ gwRes' = NoRes
    /\ gwUser' = "none"
    /\ gwLog' = [in |-> FALSE, out |-> FALSE]
    /\ gwOut' = NoOut
    /\ gwAuth' = {}
    /\ gwUpRes' = NoUpRes
    /\ UNCHANGED up
    /\ UNCHANGED <<prodVars, cartVars>>

\* app.use(cors()): answers every OPTIONS request itself (204), otherwise adds
\* Access-Control-Allow-Origin: * to the response and calls next()
Cors ==
    /\ gwStage = "handle" /\ Handler = "cors"
    /\ IF gwReq.method = "OPTIONS"
       THEN /\ gwRes' = [sent |-> gwRes.sent + 1,
                         status |-> 204,
                         headers |-> [gwRes.headers EXCEPT !["access-control-allow-origin"] = "*"],
                         body |-> NoBody]
            /\ gwStage' = "done"
            /\ gwLog' = FinishLog
            /\ UNCHANGED gwLayer
       ELSE /\ gwRes' = [gwRes EXCEPT !.headers["access-control-allow-origin"] = "*"]
            /\ gwLayer' = CallNext
            /\ UNCHANGED <<gwStage, gwLog>>
    /\ UNCHANGED <<gwReq, gwUser, gwOut, gwAuth, gwUpRes, up>>
    /\ UNCHANGED <<prodVars, cartVars>>

\* the logging middleware
Logger ==
    /\ gwStage = "handle" /\ Handler = "logger"
    /\ gwLog' = [in |-> TRUE, out |-> FALSE]
    /\ gwLayer' = CallNext
    /\ UNCHANGED <<gwReq, gwStage, gwRes, gwUser, gwOut, gwAuth, gwUpRes, up>>
    /\ UNCHANGED <<prodVars, cartVars>>

\* mutant: a health check that depends on the backends
Health_ChecksBackends ==
    /\ gwStage = "handle" /\ Handler = "health"
    /\ gwRes' = IF \A s \in Services : up[s]
                THEN Json(200, [NoBody EXCEPT !.status = "healthy", !.service = "api-gateway"])
                ELSE Json(503, [NoBody EXCEPT !.status = "unhealthy", !.service = "api-gateway"])
    /\ gwStage' = "done"
    /\ gwLog' = FinishLog
    /\ UNCHANGED <<gwReq, gwLayer, gwUser, gwOut, gwAuth, gwUpRes, up>>
    /\ UNCHANGED <<prodVars, cartVars>>

\* app.get('/health')
Health ==
    /\ gwStage = "handle" /\ Handler = "health"
    /\ gwRes' = Json(200, [NoBody EXCEPT !.status = "healthy", !.service = "api-gateway"])
    /\ gwStage' = "done"
    /\ gwLog' = FinishLog
    /\ UNCHANGED <<gwReq, gwLayer, gwUser, gwOut, gwAuth, gwUpRes, up>>
    /\ UNCHANGED <<prodVars, cartVars>>

\* const token = authHeader && authHeader.split(' ')[1]
BearerToken(authHeader) ==
    IF authHeader = <<>> THEN <<>>
    ELSE LET parts == Split(authHeader, " ")
         IN  IF Len(parts) >= 2 THEN parts[2] ELSE <<>>

\* jwt.verify(token, JWT_SECRET, cb): err unless the token verifies
JwtVerify(token) == token \in ValidTokens

Decoded(token) == "claims-of-" \o token[1]

\* mutant: the 403 branch answers but does not return, so the chain goes on
authenticateToken_NoReturn ==
    /\ gwStage = "handle" /\ Handler = "productAuth"
    /\ LET token == BearerToken(gwReq.authorization)
       IN  IF token = <<>>
           THEN /\ gwRes' = Json(401, [NoBody EXCEPT !.error = "Access token required"])
                /\ gwStage' = "done"
                /\ gwLog' = FinishLog
                /\ gwAuth' = gwAuth \cup {"401"}
                /\ UNCHANGED gwUser
           ELSE IF ~JwtVerify(token)
           THEN /\ gwRes' = Json(403, [NoBody EXCEPT !.error = "Invalid or expired token"])
                /\ gwStage' = "proxy"
                /\ gwLog' = FinishLog
                /\ gwAuth' = gwAuth \cup {"403", "next"}
                /\ UNCHANGED gwUser
           ELSE /\ gwUser' = Decoded(token)
                /\ gwStage' = "proxy"
                /\ gwAuth' = gwAuth \cup {"next"}
                /\ UNCHANGED <<gwRes, gwLog>>
    /\ UNCHANGED <<gwReq, gwLayer, gwOut, gwUpRes, up>>
    /\ UNCHANGED <<prodVars, cartVars>>

\* authenticateToken, the first handler of the POST/PUT/DELETE product routes
authenticateToken ==
    /\ gwStage = "handle" /\ Handler = "productAuth"
    /\ LET token == BearerToken(gwReq.authorization)
       IN  IF token = <<>>
           THEN /\ gwRes' = Json(401, [NoBody EXCEPT !.error = "Access token required"])
                /\ gwStage' = "done"
                /\ gwLog' = FinishLog
                /\ gwAuth' = gwAuth \cup {"401"}
                /\ UNCHANGED gwUser
           ELSE IF ~JwtVerify(token)
           THEN /\ gwRes' = Json(403, [NoBody EXCEPT !.error = "Invalid or expired token"])
                /\ gwStage' = "done"
                /\ gwLog' = FinishLog
                /\ gwAuth' = gwAuth \cup {"403"}
                /\ UNCHANGED gwUser
           ELSE /\ gwUser' = Decoded(token)
                /\ gwStage' = "proxy"
                /\ gwAuth' = gwAuth \cup {"next"}
                /\ UNCHANGED <<gwRes, gwLog>>
    /\ UNCHANGED <<gwReq, gwLayer, gwOut, gwUpRes, up>>
    /\ UNCHANGED <<prodVars, cartVars>>

\* app.use('/api/users', createProxyMiddleware({...}))
UserProxy ==
    /\ gwStage = "handle" /\ Handler = "userProxy"
    /\ gwOut' = ProxyRequest(USER_SERVICE_URL, UserPathRewrite)
    /\ gwStage' = "upstream"
    /\ UNCHANGED <<gwReq, gwLayer, gwRes, gwUser, gwLog, gwAuth, gwUpRes, up>>
    /\ UNCHANGED <<prodVars, cartVars>>

\* app.get('/api/products*', createProxyMiddleware({...}))
ProductGetProxy ==
    /\ gwStage = "handle" /\ Handler = "productGet"
    /\ gwOut' = ProxyRequest(PRODUCT_SERVICE_URL, ProductPathRewrite)
    /\ gwStage' = "upstream"
    /\ UNCHANGED <<gwReq, gwLayer, gwRes, gwUser, gwLog, gwAuth, gwUpRes, up>>
    /\ UNCHANGED <<prodVars, cartVars>>

\* the proxy handler behind authenticateToken on the POST/PUT/DELETE routes
ProductAuthProxy ==
    /\ gwStage = "proxy" /\ Handler = "productAuth"
    /\ gwOut' = ProxyRequest(PRODUCT_SERVICE_URL, ProductPathRewrite)
    /\ gwStage' = "upstream"
    /\ UNCHANGED <<gwReq, gwLayer, gwRes, gwUser, gwLog, gwAuth, gwUpRes, up>>
    /\ UNCHANGED <<prodVars, cartVars>>

\* mutant: headers already set on res win over the backend's
ProxyResponse_KeepOwnHeaders(r) ==
    [sent |-> gwRes.sent + 1,
     status |-> r.status,
     headers |-> [h \in HeaderNames |->
                     IF gwRes.headers[h] # "" THEN gwRes.headers[h] ELSE r.headers[h]],
     body |-> [NoBody EXCEPT !.raw = r.body]]

\* the proxy relays the backend's response: status, every header the backend
\* sent (set on res over what is already there) and the body
ProxyResponse(r) ==
    [sent |-> gwRes.sent + 1,
     status |-> r.status,
     headers |-> [h \in HeaderNames |->
                     IF r.headers[h] # "" THEN r.headers[h] ELSE gwRes.headers[h]],
     body |-> [NoBody EXCEPT !.raw = r.body]]

UpstreamRespond ==
    /\ gwStage = "upstream" /\ up[gwOut.target]
    /\ \E s \in BackendStatuses, hs \in BackendHeaders, b \in BackendBodies :
          /\ gwUpRes' = [status |-> s, headers |-> hs, body |-> b]
          /\ gwRes' = ProxyResponse(gwUpRes')
    /\ gwStage' = "done"
    /\ gwLog' = FinishLog
    /\ UNCHANGED <<gwReq, gwLayer, gwUser, gwOut, gwAuth, up>>
    /\ UNCHANGED <<prodVars, cartVars>>

\* the backend cannot be reached: the proxy library's default error answer
UpstreamFail ==
    /\ gwStage = "upstream" /\ ~up[gwOut.target]
    /\ gwRes' = [sent |-> gwRes.sent + 1,
                 status |-> 504,
                 headers |-> gwRes.headers,
                 body |-> [NoBody EXCEPT !.raw = "Error occurred while trying to proxy"]]
    /\ gwStage' = "done"
    /\ gwLog' = FinishLog
    /\ UNCHANGED <<gwReq, gwLayer, gwUser, gwOut, gwAuth, gwUpRes, up>>
    /\ UNCHANGED <<prodVars, cartVars>>

\* 404 Handler
NotFound ==
    /\ gwStage = "handle" /\ Handler = "notFound"
    /\ gwRes' = Json(404, [NoBody EXCEPT !.error = "Route not found",
                                         !.path = PathOf(gwReq.url)])
    /\ gwStage' = "done"
    /\ gwLog' = FinishLog
    /\ UNCHANGED <<gwReq, gwLayer, gwUser, gwOut, gwAuth, gwUpRes, up>>
    /\ UNCHANGED <<prodVars, cartVars>>

\* the exchange is over: the gateway keeps nothing of it
Close ==
    /\ gwStage = "done"
    /\ gwReq' = [method |-> "GET", url |-> <<"/", "health">>, authorization |-> <<>>]
    /\ gwLayer' = 0
    /\ gwStage' = "idle"
    /\ gwRes' = NoRes
    /\ gwUser' = "none"
    /\ gwLog' = [in |-> FALSE, out |-> FALSE]
    /\ gwOut' = NoOut
    /\ gwAuth' = {}
    /\ gwUpRes' = NoUpRes
    /\ UNCHANGED up
    /\ UNCHANGED <<prodVars, cartVars>>

\* a backend goes down or comes back
BackendUpDown ==
    /\ \E s \in Services : up' = [up EXCEPT ![s] = ~up[s]]
    /\ UNCHANGED gwVars
    /\ UNCHANGED <<prodVars, cartVars>>

GatewayInit ==
    /\ gwReq = [method |-> "GET", url |-> <<"/", "health">>, authorization |-> <<>>]
    /\ gwLayer = 0
    /\ gwStage = "idle"
    /\ gwRes = NoRes
    /\ gwUser = "none"
    /\ gwLog = [in |-> FALSE, out |-> FALSE]
    /\ gwOut = NoOut
    /\ gwAuth = {}
    /\ gwUpRes = NoUpRes
    /\ up = [s \in Services |-> TRUE]

GatewayNext ==
    \/ Receive
    \/ Cors
    \/ Logger
    \/ Health
    \/ authenticateToken
    \/ UserProxy
    \/ ProductGetProxy
    \/ ProductAuthProxy
    \/ UpstreamRespond
    \/ UpstreamFail
    \/ NotFound
    \/ Close
    \/ BackendUpDown

----------------------------------------------------------------------------
(* Product service *)

\* at most this many catalog writes (create, update, delete) in one run
MaxProductOps == 2

\* a field of a JSON body: <<>> when the field is absent (undefined)
Undefined == <<>>

\* JavaScript truthiness of a number-or-undefined field and of a string
Truthy(o) == o # Undefined /\ o[1] # 0

TruthyStr(str) == str # ""

\* parseFloat of a JSON number is that number
ParseFloat(n) == n

\* the Product fields the handlers compute with; description and the
\* timestamps are stored and returned but never read. Prices are in cents.
Product(id, name, price, category, stock) ==
    [id |-> id, name |-> name, price |-> price, category |-> category, stock |-> stock]

InitialProducts == <<
    Product(1, "Laptop", 99999, "Electronics", 50),
    Product(2, "Smartphone", 69999, "Electronics", 100) >>

\* ids a request may name; an id is the decimal string of the number
IdParams == {1, 2, 3}

NameInputs == {"", "Widget"}

CategoryInputs == {"", "Electronics"}

PriceInputs == {Undefined, <<-5>>, <<0>>, <<100>>}

StockInputs == {Undefined, <<-1>>, <<0>>, <<3>>}

\* products.findIndex(p => p.id === id); 0 stands for -1
FindIndex(ps, id) ==
    IF \E i \in 1..Len(ps) : ps[i].id = id
    THEN CHOOSE i \in 1..Len(ps) :
            ps[i].id = id /\ \A j \in 1..(i - 1) : ps[j].id # id
    ELSE 0

\* list.splice(i, 1)
Splice(list, i) == SubSeq(list, 1, i - 1) \o SubSeq(list, i + 1, Len(list))

ProductResponse(op, id, status, error) ==
    [op |-> op, id |-> id, status |-> status, error |-> error]

\* products.find(p => p.id === id): <<>> when there is none
FindProduct(ps, id) ==
    IF FindIndex(ps, id) = 0 THEN <<>> ELSE <<ps[FindIndex(ps, id)]>>

\* req.query.category and req.query.search; "" is the absent parameter
CategoryQueries == {"", "electronics", "Books"}

SearchQueries == {"", "LAP", "phone"}

\* String.prototype.toLowerCase on the strings that occur
ToLowerCase(str) ==
    CASE str = "Electronics" -> "electronics"
      [] str = "Books" -> "books"
      [] str = "Laptop" -> "laptop"
      [] str = "Smartphone" -> "smartphone"
      [] str = "Widget" -> "widget"
      [] str = "LAP" -> "lap"
      [] OTHER -> str

\* String.prototype.includes on the lower-case strings that occur
Includes(str, part) ==
    \/ part = "" \/ part = str
    \/ <<str, part>> \in {<<"laptop", "lap">>, <<"smartphone", "phone">>}

\* products.filter(..) by category, then by name
FilterProducts(ps, category, search) ==
    LET ByCategory(p) ==
            ~TruthyStr(category) \/ ToLowerCase(p.category) = ToLowerCase(category)
        ByName(p) ==
            ~TruthyStr(search) \/ Includes(ToLowerCase(p.name), ToLowerCase(search))
    IN  SelectSeq(SelectSeq(ps, ByCategory), ByName)

\* res.json({ total, products }) of the list
ListResponse(filteredProducts) ==
    [op |-> "list", id |-> 0, status |-> 200, error |-> "",
     total |-> Len(filteredProducts), products |-> filteredProducts]

\* app.get('/products')
ListProducts ==
    /\ \E category \in CategoryQueries, search \in SearchQueries :
          pRes' = ListResponse(FilterProducts(products, category, search))
    /\ UNCHANGED <<products, pOps, cartVars, gwVars, up>>

\* app.get('/products/:id')
GetProduct ==
    /\ \E id \in IdParams :
          pRes' = IF FindProduct(products, id) = <<>>
                  THEN ProductResponse("get", id, 404, "Product not found")
                  ELSE ProductResponse("get", id, 200, "")
    /\ UNCHANGED <<products, pOps, cartVars, gwVars, up>>

\* app.post('/products')
CreateProduct ==
    /\ \E name \in NameInputs, price \in PriceInputs,
          category \in CategoryInputs, stock \in StockInputs :
          IF ~TruthyStr(name) \/ ~Truthy(price) \/ ~TruthyStr(category)
          THEN /\ pRes' = ProductResponse("create", 0, 400,
                                          "Name, price, and category are required")
               /\ UNCHANGED <<products, pOps>>
          ELSE IF price[1] < 0 \/ (Truthy(stock) /\ stock[1] < 0)
          THEN /\ pRes' = ProductResponse("create", 0, 400,
                                          "Price and stock must be positive")
               /\ UNCHANGED <<products, pOps>>
          ELSE /\ pOps < MaxProductOps
               /\ products' = Append(products,
                                 Product(Len(products) + 1,
                                         name,
                                         ParseFloat(price[1]),
                                         category,
                                         IF Truthy(stock) THEN stock[1] ELSE 0))
               /\ pRes' = ProductResponse("create", Len(products) + 1, 201, "")
               /\ pOps' = pOps + 1
    /\ UNCHANGED <<cartVars, gwVars, up>>

\* app.put('/products/:id')
UpdateProduct ==
    /\ \E id \in IdParams, name \in NameInputs, price \in PriceInputs,
          category \in CategoryInputs, stock \in StockInputs :
          LET productIndex == FindIndex(products, id)
          IN  IF productIndex = 0
              THEN /\ pRes' = ProductResponse("update", id, 404, "Product not found")
                   /\ UNCHANGED <<products, pOps>>
              ELSE /\ pOps < MaxProductOps
                   /\ products' =
                         [products EXCEPT ![productIndex] =
                             [@ EXCEPT
                                 !.name = IF TruthyStr(name) THEN name ELSE @,
                                 !.price = IF Truthy(price) THEN ParseFloat(price[1]) ELSE @,
                                 !.category = IF TruthyStr(category) THEN category ELSE @,
                                 !.stock = IF stock # Undefined THEN stock[1] ELSE @]]
                   /\ pRes' = ProductResponse("update", id, 200, "")
                   /\ pOps' = pOps + 1
    /\ UNCHANGED <<cartVars, gwVars, up>>

\* mutant: the index is the one the product had when the service started,
\* as if the lookup had been made before other requests were handled
DeleteProduct_StaleLookup ==
    /\ \E id \in IdParams :
          LET productIndex == FindIndex(InitialProducts, id)
          IN  IF FindIndex(products, id) = 0
              THEN /\ pRes' = ProductResponse("delete", id, 404, "Product not found")
                   /\ UNCHANGED <<products, pOps>>
              ELSE /\ pOps < MaxProductOps
                   /\ products' = Splice(products, productIndex)
                   /\ pRes' = ProductResponse("delete", id, 200, "")
                   /\ pOps' = pOps + 1
    /\ UNCHANGED <<cartVars, gwVars, up>>

\* app.delete('/products/:id')
DeleteProduct ==
    /\ \E id \in IdParams :
          LET productIndex == FindIndex(products, id)
          IN  IF productIndex = 0
              THEN /\ pRes' = ProductResponse("delete", id, 404, "Product not found")
                   /\ UNCHANGED <<products, pOps>>
              ELSE /\ pOps < MaxProductOps
                   /\ products' = Splice(products, productIndex)
                   /\ pRes' = ProductResponse("delete", id, 200, "")
                   /\ pOps' = pOps + 1
    /\ UNCHANGED <<cartVars, gwVars, up>>

\* app.get('/products/:id/stock')
CheckStock ==
    /\ \E id \in IdParams :
          pRes' = IF FindIndex(products, id) = 0
                  THEN ProductResponse("stock", id, 404, "Product not found")
                  ELSE ProductResponse("stock", id, 200, "")
    /\ UNCHANGED <<products, pOps, cartVars, gwVars, up>>

ProductInit ==
    /\ products = InitialProducts
    /\ pRes = ProductResponse("none", 0, 0, "")
    /\ pOps = 0

ProductNext ==
    \/ ListProducts
    \/ GetProduct
    \/ CreateProduct
    \/ UpdateProduct
    \/ DeleteProduct
    \/ CheckStock

----------------------------------------------------------------------------
(* Cart service *)

\* saveCart: { EX: 86400 }
CART_TTL == 86400

\* the clock advances in steps of half the expiry, at most MaxTicks times
MaxTicks == 2

TickSeconds == CART_TTL \div 2

\* no cart line grows beyond this quantity
MaxQty == 101

\* no cart grows beyond this many lines
MaxLines == 3

Slots == {1, 2}

Users == {"user123", "u1"}

\* getCartKey
getCartKey(userId) == "cart:" \o userId

CartKeys == {getCartKey(u) : u \in Users}

\* mutant: the header is ignored
getUserId_IgnoresHeader(header) == "user123"

\* getUserId: req.headers['x-user-id'] || 'user123' ("" is the absent header)
getUserId(header) == IF header # "" THEN header ELSE "user123"

CartOps == {"get", "add", "update", "remove", "clear"}

\* productId of a request; 0 is a missing productId
ProductIdInputs == {0, 1, 2, 3}

\* a productId that is a JSON number: n stands for the string 'n' and
\* JsonNumber(n) for the number n, which `===` tells apart
JsonNumber(n) == 10 + n

IsJsonNumber(productId) == productId > 10

\* `${productId}` in the url of the product service
TemplateString(productId) ==
    IF IsJsonNumber(productId) THEN productId - 10 ELSE productId

\* req.body.productId: a string, or a number
BodyProductIds == ProductIdInputs \cup {JsonNumber(1)}

\* quantities are integers
QuantityInputs == {-1, 0, 50, 51}

EmptyCart(userId) == [userId |-> userId, items |-> <<>>, total |-> 0, itemCount |-> 0]

NoProduct == [kind |-> "none", id |-> 0, name |-> "", price |-> 0, stock |-> 0]

NoKey == [val |-> <<>>, expireAt |-> 0]

IdleRequest ==
    [op |-> "none", userId |-> "", productId |-> 0, quantity |-> 0, pc |-> "idle",
     cart |-> EmptyCart(""), product |-> NoProduct, status |-> 0, error |-> ""]

\* JSON.stringify / JSON.parse of a cart: a plain record of strings and
\* integers comes back as it went in
Stringify(cart) == <<"json", cart>>

Parse(text) == text[2]

\* getCart, at the moment Redis executes the GET
getCart(userId) ==
    LET cartData == redis[getCartKey(userId)].val
    IN  IF cartData = <<>> THEN EmptyCart(userId) ELSE Parse(cartData[1])

\* mutant: the SET keeps the time to live the key already has
saveCart_KeepTTL(cart) ==
    [redis EXCEPT ![getCartKey(cart.userId)] =
        [val |-> <<Stringify(cart)>>,
         expireAt |-> IF redis[getCartKey(cart.userId)].val # <<>>
                      THEN redis[getCartKey(cart.userId)].expireAt
                      ELSE now + CART_TTL]]

\* saveCart, at the moment Redis executes the SET ... EX 86400
saveCart(cart) ==
    [redis EXCEPT ![getCartKey(cart.userId)] =
        [val |-> <<Stringify(cart)>>, expireAt |-> now + CART_TTL]]

\* items.reduce((sum, item) => sum + item.subtotal, 0)
RECURSIVE ReduceSubtotal(_, _)
ReduceSubtotal(items, sum) ==
    IF items = <<>> THEN sum
    ELSE ReduceSubtotal(Tail(items), sum + Head(items).subtotal)

\* items.reduce((sum, item) => sum + item.quantity, 0)
RECURSIVE ReduceQuantity(_, _)
ReduceQuantity(items, sum) ==
    IF items = <<>> THEN sum
    ELSE ReduceQuantity(Tail(items), sum + Head(items).quantity)

\* calculateCartTotals
calculateCartTotals(cart) ==
    [cart EXCEPT !.total = ReduceSubtotal(cart.items, 0),
                 !.itemCount = ReduceQuantity(cart.items, 0)]

\* cart.items.findIndex(item => item.productId === productId); 0 stands for -1
FindItem(items, productId) ==
    IF \E i \in 1..Len(items) : items[i].productId = productId
    THEN CHOOSE i \in 1..Len(items) :
            items[i].productId = productId
            /\ \A j \in 1..(i - 1) : items[j].productId # productId
    ELSE 0

\* getProductDetails: GET /products/:id on the product service; the answer is
\* the product, 'Product not found' on a 404, or 'Failed to fetch product
\* details' when the service cannot be reached
getProductDetails(productId, reachable) ==
    LET found == FindProduct(products, TemplateString(productId))
    IN  IF ~reachable THEN [NoProduct EXCEPT !.kind = "failed"]
        ELSE IF found = <<>> THEN [NoProduct EXCEPT !.kind = "notfound"]
        ELSE [kind |-> "ok", id |-> found[1].id, name |-> found[1].name,
              price |-> found[1].price, stock |-> found[1].stock]

\* res.status(status).json({ error }) and the end of the handler
Respond(r, status, error) ==
    creq' = [creq EXCEPT ![r].pc = "done", ![r].status = status, ![r].error = error]

\* a request arrives: getUserId runs, then the handler up to its first await
NewRequest(r, op, header, productId, quantity) ==
    [IdleRequest EXCEPT !.op = op, !.userId = getUserId(header),
                        !.productId = productId, !.quantity = quantity,
                        !.cart = EmptyCart(getUserId(header))]

\* app.get('/cart')
GetCart(r, header) ==
    \/ /\ creq[r].pc = "idle"
       /\ creq' = [creq EXCEPT ![r] =
                      [NewRequest(r, "get", header, 0, 0) EXCEPT !.pc = "awaitGet"]]
       /\ UNCHANGED <<redis, now, prodVars, gwVars, up>>
    \/ /\ creq[r].pc = "awaitGet" /\ creq[r].op = "get"
       /\ creq' = [creq EXCEPT ![r].cart = getCart(creq[r].userId),
                               ![r].pc = "done", ![r].status = 200]
       /\ UNCHANGED <<redis, now, prodVars, gwVars, up>>

\* mutant: the stock check only asks whether anything is in stock
InsufficientStock_AnyStock(product, quantity) == product.stock < 1

\* product.stock < quantity
InsufficientStock(product, quantity) == product.stock < quantity

\* the cart of POST /cart/items once the product and the cart are there
AddToCart(cart, product, productId, quantity) ==
    LET existing == FindItem(cart.items, productId)
    IN  calculateCartTotals(
            IF existing # 0
            THEN [cart EXCEPT
                    !.items[existing].quantity = @ + quantity,
                    !.items[existing].subtotal =
                        cart.items[existing].price * (cart.items[existing].quantity + quantity)]
            ELSE [cart EXCEPT
                    !.items = Append(@, [productId |-> product.id,
                                         name |-> product.name,
                                         price |-> product.price,
                                         quantity |-> quantity,
                                         subtotal |-> product.price * quantity])])

\* app.post('/cart/items'), req.body.productId drawn from productIds
AddItemFrom(r, header, productIds) ==
    \/ /\ creq[r].pc = "idle"
       /\ \E productId \in productIds, quantity \in QuantityInputs :
             LET req == NewRequest(r, "add", header, productId, quantity)
             IN  IF productId = 0 \/ quantity = 0 \/ quantity < 1
                 THEN creq' = [creq EXCEPT ![r] =
                                 [req EXCEPT !.pc = "done", !.status = 400,
                                             !.error = "Valid productId and quantity are required"]]
                 ELSE creq' = [creq EXCEPT ![r] = [req EXCEPT !.pc = "awaitProduct"]]
       /\ UNCHANGED <<redis, now, prodVars, gwVars, up>>
    \/ /\ creq[r].pc = "awaitProduct" /\ creq[r].op = "add"
       /\ \E reachable \in BOOLEAN :
             LET product == getProductDetails(creq[r].productId, reachable)
             IN  IF product.kind = "notfound"
                 THEN creq' = [creq EXCEPT ![r].product = product, ![r].pc = "done",
                                           ![r].status = 404,
                                           ![r].error = "Product not found"]
                 ELSE IF product.kind = "failed"
                 THEN creq' = [creq EXCEPT ![r].product = product, ![r].pc = "done",
                                           ![r].status = 500,
                                           ![r].error = "Failed to add item to cart"]
                 ELSE IF InsufficientStock(product, creq[r].quantity)
                 THEN creq' = [creq EXCEPT ![r].product = product, ![r].pc = "done",
                                           ![r].status = 400,
                                           ![r].error = "Insufficient stock"]
                 ELSE creq' = [creq EXCEPT ![r].product = product, ![r].pc = "awaitGet"]
       /\ UNCHANGED <<redis, now, prodVars, gwVars, up>>
    \/ /\ creq[r].pc = "awaitGet" /\ creq[r].op = "add"
       /\ LET cart == AddToCart(getCart(creq[r].userId), creq[r].product,
                                creq[r].productId, creq[r].quantity)
          IN  /\ \A i \in 1..Len(cart.items) : cart.items[i].quantity <= MaxQty
              /\ Len(cart.items) <= MaxLines
              /\ creq' = [creq EXCEPT ![r].cart = cart, ![r].pc = "awaitSet"]
       /\ UNCHANGED <<redis, now, prodVars, gwVars, up>>

\* app.post('/cart/items') with a string productId
AddItem(r, header) == AddItemFrom(r, header, ProductIdInputs)

\* the cart of PUT /cart/items/:productId once the product is there
SetQuantity(cart, itemIndex, quantity) ==
    calculateCartTotals(
        [cart EXCEPT !.items[itemIndex].quantity = quantity,
                     !.items[itemIndex].subtotal = cart.items[itemIndex].price * quantity])

\* mutant: the item is removed but the totals are not recomputed
RemoveFromCart_StaleTotals(cart, itemIndex) ==
    [cart EXCEPT !.items = Splice(@, itemIndex)]

\* cart.items.splice(itemIndex, 1); calculateCartTotals(cart)
RemoveFromCart(cart, itemIndex) ==
    calculateCartTotals([cart EXCEPT !.items = Splice(@, itemIndex)])

\* app.put('/cart/items/:productId')
UpdateItem(r, header) ==
    \/ /\ creq[r].pc = "idle"
       /\ \E productId \in ProductIdInputs \ {0},
             quantity \in QuantityInputs :
             LET req == NewRequest(r, "update", header, productId, quantity)
             IN  IF quantity < 0
                 THEN creq' = [creq EXCEPT ![r] =
                                 [req EXCEPT !.pc = "done", !.status = 400,
                                             !.error = "Quantity must be non-negative"]]
                 ELSE creq' = [creq EXCEPT ![r] = [req EXCEPT !.pc = "awaitGet"]]
       /\ UNCHANGED <<redis, now, prodVars, gwVars, up>>
    \/ /\ creq[r].pc = "awaitGet" /\ creq[r].op = "update"
       /\ LET cart == getCart(creq[r].userId)
              itemIndex == FindItem(cart.items, creq[r].productId)
          IN  IF itemIndex = 0
              THEN Respond(r, 404, "Item not found in cart")
              ELSE IF creq[r].quantity = 0
              THEN creq' = [creq EXCEPT ![r].cart = RemoveFromCart(cart, itemIndex),
                                        ![r].pc = "awaitSet"]
              ELSE creq' = [creq EXCEPT ![r].cart = cart, ![r].pc = "awaitProduct"]
       /\ UNCHANGED <<redis, now, prodVars, gwVars, up>>
    \/ /\ creq[r].pc = "awaitProduct" /\ creq[r].op = "update"
       /\ \E reachable \in BOOLEAN :
             LET product == getProductDetails(creq[r].productId, reachable)
                 itemIndex == FindItem(creq[r].cart.items, creq[r].productId)
             IN  IF product.kind # "ok"
                 THEN creq' = [creq EXCEPT ![r].product = product, ![r].pc = "done",
                                           ![r].status = 500,
                                           ![r].error = "Failed to update cart item"]
                 ELSE IF InsufficientStock(product, creq[r].quantity)
                 THEN creq' = [creq EXCEPT ![r].product = product, ![r].pc = "done",
                                           ![r].status = 400,
                                           ![r].error = "Insufficient stock"]
                 ELSE creq' = [creq EXCEPT
                                 ![r].product = product,
                                 ![r].cart = SetQuantity(creq[r].cart, itemIndex,
                                                         creq[r].quantity),
                                 ![r].pc = "awaitSet"]
       /\ UNCHANGED <<redis, now, prodVars, gwVars, up>>

\* app.delete('/cart/items/:productId')
RemoveItem(r, header) ==
    \/ /\ creq[r].pc = "idle"
       /\ \E productId \in ProductIdInputs \ {0} :
             creq' = [creq EXCEPT ![r] =
                         [NewRequest(r, "remove", header, productId, 0)
                             EXCEPT !.pc = "awaitGet"]]
       /\ UNCHANGED <<redis, now, prodVars, gwVars, up>>
    \/ /\ creq[r].pc = "awaitGet" /\ creq[r].op = "remove"
       /\ LET cart == getCart(creq[r].userId)
              itemIndex == FindItem(cart.items, creq[r].productId)
          IN  IF itemIndex = 0
              THEN Respond(r, 404, "Item not found in cart")
              ELSE creq' = [creq EXCEPT ![r].cart = RemoveFromCart(cart, itemIndex),
                                        ![r].pc = "awaitSet"]
       /\ UNCHANGED <<redis, now, prodVars, gwVars, up>>

\* app.delete('/cart')
ClearCart(r, header) ==
    /\ creq[r].pc = "idle"
    /\ creq' = [creq EXCEPT ![r] =
                   [NewRequest(r, "clear", header, 0, 0) EXCEPT !.pc = "awaitSet"]]
    /\ UNCHANGED <<redis, now, prodVars, gwVars, up>>

\* await saveCart(cart) resolves: Redis has executed the SET, the handler
\* answers res.json({ message, cart })
CartSaved(r) ==
    /\ creq[r].pc = "awaitSet"
    /\ redis' = saveCart(creq[r].cart)
    /\ creq' = [creq EXCEPT ![r].pc = "done", ![r].status = 200]
    /\ UNCHANGED <<now, prodVars, gwVars, up>>

\* the response has been sent; the slot is free for the next request
CartDone(r) ==
    /\ creq[r].pc = "done"
    /\ creq' = [creq EXCEPT ![r] = IdleRequest]
    /\ UNCHANGED <<redis, now, prodVars, gwVars, up>>

\* time passes; Redis drops the keys whose expiry has been reached
Tick ==
    /\ now < MaxTicks * TickSeconds
    /\ now' = now + TickSeconds
    /\ redis' = [k \in CartKeys |->
                    IF redis[k].val # <<>> /\ redis[k].expireAt <= now'
                    THEN NoKey ELSE redis[k]]
    /\ UNCHANGED <<creq, prodVars, gwVars, up>>

CartInit ==
    /\ redis = [k \in CartKeys |-> NoKey]
    /\ creq = [r \in Slots |-> IdleRequest]
    /\ now = 0

\* x-user-id headers of the default user: absent, or naming it
DefaultUserHeaders == {"", "user123"}

\* the cart service handling the default user's requests one at a time, the
\* catalog losing products, the clock advancing
CartNext ==
    \/ \E header \in DefaultUserHeaders : GetCart(1, header)
    \/ \E header \in DefaultUserHeaders : AddItem(1, header)
    \/ \E header \in DefaultUserHeaders : UpdateItem(1, header)
    \/ \E header \in DefaultUserHeaders : RemoveItem(1, header)
    \/ \E header \in DefaultUserHeaders : ClearCart(1, header)
    \/ CartSaved(1)
    \/ CartDone(1)
    \/ DeleteProduct
    \/ Tick


Init == GatewayInit /\ ProductInit /\ CartInit

SpecGateway == Init /\ [][GatewayNext]_vars

SpecProduct == Init /\ [][ProductNext]_vars

SpecCart == Init /\ [][CartNext]_vars

\* the cart service handling the default user's requests one at a time, the
\* productId of an add being a string or a number
CartTypedNext ==
    \/ GetCart(1, "")
    \/ AddItemFrom(1, "", BodyProductIds)
    \/ UpdateItem(1, "")
    \/ RemoveItem(1, "")
    \/ ClearCart(1, "")
    \/ CartSaved(1)
    \/ CartDone(1)

SpecCartTyped == Init /\ [][CartTypedNext]_vars

----------------------------------------------------------------------------
(* Gateway: properties *)

ReqPath == PathOf(gwReq.url)

IsProductPath == IsPrefix(ApiProducts, ReqPath)

Forwarded == gwOut # NoOut

\* C1: a POST, PUT or DELETE on /api/products* that carries no token, or a
\* token that fails verification, is answered 401 or 403 and is never
\* forwarded; such a request is forwarded to the product service only after
\* its token was verified.
C1_NoForwardWithoutValidToken ==
    (gwStage # "idle" /\ gwReq.method \in {"POST", "PUT", "DELETE"} /\ IsProductPath) =>
        LET token == BearerToken(gwReq.authorization)
        IN  /\ Forwarded => (token # <<>> /\ token \in ValidTokens /\ gwAuth = {"next"}
                             /\ gwOut.target = PRODUCT_SERVICE_URL)
            /\ (gwStage = "done" /\ token = <<>>) =>
                   (gwRes.status = 401 /\ gwRes.sent = 1 /\ ~Forwarded)
            /\ (gwStage = "done" /\ token # <<>> /\ token \notin ValidTokens) =>
                   (gwRes.status = 403 /\ gwRes.sent = 1 /\ ~Forwarded)

C1_Witness ==
    /\ gwStage = "done"
    /\ gwReq.method = "DELETE"
    /\ gwReq.url = ApiProducts \o <<"/", "1">>
    /\ gwReq.authorization = <<"Bearer", " ", "expired">>
    /\ gwRes.status = 403
    /\ ~Forwarded

\* the header has the form `Bearer <token>`
IsBearerForm(h) == Len(h) = 3 /\ h[1] = "Bearer" /\ h[2] = " " /\ h[3] # " "

\* C2: on an auth-required route the Auth Gate answers 401 "Access token
\* required" when the Authorization header holds no `Bearer <token>`, 403
\* "Invalid or expired token" when the bearer token fails verification, and
\* otherwise attaches the claims and continues; it does exactly one of these.
C2_AuthGateThreeOutcomes ==
    (gwAuth # {}) =>
        LET h == gwReq.authorization
        IN  /\ Cardinality(gwAuth) = 1
            /\ ~IsBearerForm(h) =>
                   (gwAuth = {"401"} /\ gwRes.status = 401
                    /\ gwRes.body.error = "Access token required")
            /\ (IsBearerForm(h) /\ <<h[3]>> \notin ValidTokens) =>
                   (gwAuth = {"403"} /\ gwRes.status = 403
                    /\ gwRes.body.error = "Invalid or expired token")
            /\ (IsBearerForm(h) /\ <<h[3]>> \in ValidTokens) =>
                   (gwAuth = {"next"} /\ gwUser = Decoded(<<h[3]>>))

\* C3: every GET on /api/products* is forwarded to the product service
\* without passing the Auth Gate, as /products plus the rest of the url, query
\* string included.
C3_PublicProductGet ==
    (gwStage # "idle" /\ gwReq.method = "GET" /\ IsProductPath) =>
        /\ gwAuth = {}
        /\ gwUser = "none"
        /\ gwStage \in {"upstream", "done"} =>
              /\ gwOut.target = PRODUCT_SERVICE_URL
              /\ gwOut.method = "GET"
              /\ gwOut.url = <<"/", "products">> \o Drop(gwReq.url, Len(ApiProducts))
              /\ QueryOf(gwOut.url) = QueryOf(gwReq.url)

C3_Witness ==
    /\ gwStage = "done"
    /\ gwReq.method = "GET"
    /\ gwReq.url = ApiProducts \o <<"?", "category=x">>
    /\ gwReq.authorization = <<"Bearer", " ", "expired">>
    /\ gwOut.url = <<"/", "products", "?", "category=x">>
    /\ gwRes.status = 200

UserPaths ==
    { ApiUsers \o <<"/", "register">>,
      ApiUsers \o <<"/", "login">>,
      ApiUsers \o <<"/", "profile">> }

NotFoundAnswer ==
    /\ gwRes.status = 404
    /\ gwRes.sent = 1
    /\ gwRes.body.error = "Route not found"
    /\ gwRes.body.path = ReqPath
    /\ ~Forwarded

\* C4 as stated: every request other than GET /health, the three user paths
\* and GET/POST/PUT/DELETE on /api/products* is answered 404 {error: "Route
\* not found", path} and forwarded nowhere.
C4_Original ==
    (/\ gwStage # "idle"
     /\ ~(gwReq.method = "GET" /\ ReqPath = <<"/", "health">>)
     /\ ReqPath \notin UserPaths
     /\ ~(gwReq.method \in {"GET", "POST", "PUT", "DELETE"} /\ IsProductPath)) =>
        /\ ~Forwarded
        /\ gwStage = "done" => NotFoundAnswer

\* the routes the gateway serves: GET/HEAD /health, /api/users and everything
\* below it (any method), GET/HEAD/POST/PUT/DELETE on /api/products*
IsRouted(method, path) ==
    \/ method \in {"GET", "HEAD"} /\ path = <<"/", "health">>
    \/ path = ApiUsers
    \/ IsPrefix(ApiUsers \o <<"/">>, path)
    \/ method \in {"GET", "HEAD", "POST", "PUT", "DELETE"} /\ IsPrefix(ApiProducts, path)

\* C4 (amended): every request other than an OPTIONS request that matches no
\* route is answered 404 {error: "Route not found", path} and is forwarded to
\* no backend.
C4_UnroutedIs404 ==
    (gwStage # "idle" /\ gwReq.method # "OPTIONS" /\ ~IsRouted(gwReq.method, ReqPath)) =>
        /\ ~Forwarded
        /\ gwStage = "done" => NotFoundAnswer

C4_Witness ==
    /\ gwStage = "done"
    /\ gwReq.method = "PATCH"
    /\ gwReq.url = ApiProducts \o <<"/", "1">>
    /\ NotFoundAnswer

\* C7 as stated: the client receives the backend's status, exactly the
\* backend's headers and the backend's body.
C7_Original ==
    (gwStage = "done" /\ gwUpRes # NoUpRes) =>
        /\ gwRes.status = gwUpRes.status
        /\ gwRes.headers = gwUpRes.headers
        /\ gwRes.body.raw = gwUpRes.body

\* C7 (amended): the client receives the backend's status and body and every
\* header the backend sent, with the backend's value; a header the backend did
\* not send is absent, except Access-Control-Allow-Origin, which then is the
\* "*" the CORS stage set.
C7_RelayKeepsBackendResponse ==
    (gwStage = "done" /\ gwUpRes # NoUpRes) =>
        /\ gwRes.status = gwUpRes.status
        /\ gwRes.body = [NoBody EXCEPT !.raw = gwUpRes.body]
        /\ gwRes.sent = 1
        /\ \A h \in HeaderNames :
              IF gwUpRes.headers[h] # ""
              THEN gwRes.headers[h] = gwUpRes.headers[h]
              ELSE gwRes.headers[h] =
                      (IF h = "access-control-allow-origin" THEN "*" ELSE "")

C7_Witness ==
    /\ gwStage = "done"
    /\ gwUpRes.status = 404
    /\ gwUpRes.headers["access-control-allow-origin"] = "https://shop.example"
    /\ gwRes.headers["access-control-allow-origin"] = "https://shop.example"
    /\ gwRes.status = 404

\* C8 as stated: any method on the three user paths is forwarded to the user
\* service without the Auth Gate and with /api/users stripped, and every url
\* forwarded to the user service has had /api/users stripped.
C8_Original ==
    /\ (gwStage = "done" /\ ReqPath \in UserPaths) =>
          /\ gwOut.target = USER_SERVICE_URL
          /\ gwOut.url = Drop(gwReq.url, Len(ApiUsers))
          /\ gwAuth = {}
    /\ gwOut.target = USER_SERVICE_URL =>
          (IsPrefix(ApiUsers, gwReq.url) /\ gwOut.url = Drop(gwReq.url, Len(ApiUsers)))

\* C8 (amended): any method but OPTIONS on the three user paths is forwarded
\* to the user service without the Auth Gate and with /api/users stripped; a
\* url forwarded to the user service has had /api/users stripped when it
\* starts with one of the three paths and is the request's url otherwise.
C8_UserProxy ==
    /\ (gwStage = "done" /\ gwReq.method # "OPTIONS" /\ ReqPath \in UserPaths) =>
          /\ gwOut.target = USER_SERVICE_URL
          /\ gwOut.method = gwReq.method
          /\ gwOut.url = Drop(gwReq.url, Len(ApiUsers))
          /\ gwAuth = {}
          /\ gwUser = "none"
    /\ gwOut.target = USER_SERVICE_URL =>
          /\ ReqPath = ApiUsers \/ IsPrefix(ApiUsers \o <<"/">>, ReqPath)
          /\ gwOut.url =
                (IF \E p \in UserPaths : IsPrefix(p, gwReq.url)
                 THEN Drop(gwReq.url, Len(ApiUsers))
                 ELSE gwReq.url)

C8_Witness ==
    /\ gwStage = "done"
    /\ gwReq.method = "PUT"
    /\ gwReq.url = ApiUsers \o <<"/", "profile", "?", "full=1">>
    /\ gwReq.authorization = <<>>
    /\ gwOut = [target |-> USER_SERVICE_URL, method |-> "PUT",
                url |-> <<"/", "profile", "?", "full=1">>]

\* C9: GET /health answers 200 with status "healthy" whatever the backends'
\* reachability and whatever the Authorization header, and contacts no
\* backend.
C9_HealthAlwaysHealthy ==
    (gwStage # "idle" /\ gwReq.method = "GET" /\ ReqPath = <<"/", "health">>) =>
        /\ ~Forwarded
        /\ gwAuth = {}
        /\ gwStage = "done" =>
              (gwRes.status = 200 /\ gwRes.sent = 1
               /\ gwRes.body.status = "healthy" /\ gwRes.body.error = "")

C9_Witness ==
    /\ gwStage = "done"
    /\ gwReq.method = "GET"
    /\ gwReq.url = <<"/", "health">>
    /\ gwReq.authorization = <<"Bearer", " ", "expired">>
    /\ \A s \in Services : ~up[s]
    /\ gwRes.status = 200
    /\ gwRes.body.status = "healthy"

----------------------------------------------------------------------------
(* Cart and product service: properties *)

StoredCart(userId) == getCart(userId)

\* the sum of f over the items, by position
RECURSIVE SubtotalsUpTo(_, _)
SubtotalsUpTo(items, n) ==
    IF n = 0 THEN 0 ELSE SubtotalsUpTo(items, n - 1) + items[n].subtotal

RECURSIVE QuantitiesUpTo(_, _)
QuantitiesUpTo(items, n) ==
    IF n = 0 THEN 0 ELSE QuantitiesUpTo(items, n - 1) + items[n].quantity

\* C5: an add-item request whose quantity exceeds the stock the product
\* service reports answers 400 "Insufficient stock", and no step of the
\* request up to that answer touches the stored carts or their expiry.
C5_InsufficientStockLeavesCart ==
    [][\A r \in Slots :
          LET a == creq'[r]
              short == a.product.kind = "ok" /\ a.product.stock < a.quantity
          IN  (a # creq[r] /\ a.op = "add" /\ (a.pc = "awaitProduct" \/ short)) =>
                  /\ redis' = redis
                  /\ short => (a.pc = "done" /\ a.status = 400
                               /\ a.error = "Insufficient stock")]_vars

C5_Witness ==
    /\ creq[1].op = "add"
    /\ creq[1].pc = "done"
    /\ creq[1].status = 400
    /\ creq[1].error = "Insufficient stock"
    /\ creq[1].quantity > creq[1].product.stock
    /\ Len(StoredCart(creq[1].userId).items) = 2
    /\ redis[getCartKey(creq[1].userId)].expireAt < now + CART_TTL

\* C6: an update with quantity 0 of an item that is in the cart stores the
\* cart without that item, the other items unchanged and in order, total the
\* sum of their subtotals and itemCount the sum of their quantities, and
\* never asks the product service.
C6_UpdateToZeroRemoves ==
    [][\A r \in Slots :
          (creq[r].op = "update" /\ creq[r].quantity = 0 /\ creq'[r] # creq[r]) =>
              LET old == StoredCart(creq[r].userId)
                  new == creq'[r].cart
                  Other(item) == item.productId # creq[r].productId
              IN  /\ (creq[r].pc = "awaitGet"
                      /\ \E i \in 1..Len(old.items) :
                            old.items[i].productId = creq[r].productId) =>
                         /\ creq'[r].pc = "awaitSet"
                         /\ new.items = SelectSeq(old.items, Other)
                         /\ Len(new.items) = Len(old.items) - 1
                         /\ new.total = SubtotalsUpTo(new.items, Len(new.items))
                         /\ new.itemCount = QuantitiesUpTo(new.items, Len(new.items))
                         /\ new.userId = old.userId
                  /\ creq[r].pc = "awaitSet" =>
                         /\ redis'[getCartKey(creq[r].userId)] =
                               [val |-> <<Stringify(creq[r].cart)>>,
                                expireAt |-> now + CART_TTL]
                         /\ creq'[r].pc = "done" /\ creq'[r].status = 200
                  /\ creq[r].pc # "awaitProduct"
                  /\ creq[r].product = NoProduct]_vars

C6_Witness ==
    /\ creq[1].op = "update"
    /\ creq[1].quantity = 0
    /\ creq[1].pc = "done"
    /\ creq[1].status = 200
    /\ LET stored == StoredCart(creq[1].userId)
       IN  /\ Len(stored.items) = 1
           /\ stored.items[1].productId # creq[1].productId
           /\ stored.total = stored.items[1].subtotal
           /\ stored.itemCount = stored.items[1].quantity
           /\ stored.total > 0

\* C10: every backend request that names a missing resource is answered 404
\* with an error body and leaves the stored state unchanged: product
\* get/update/delete/stock on an id not in the catalog, cart update/remove of
\* a productId not in the cart, cart add or update (quantity > 0) of a
\* product the product service reports as not found.
C10_MissingResourceIs404 ==
    [][/\ (pRes' # pRes /\ pRes'.op \in {"get", "update", "delete", "stock"}
           /\ FindIndex(products, pRes'.id) = 0) =>
              (pRes'.status = 404 /\ pRes'.error # "" /\ products' = products)
       /\ \A r \in Slots :
             /\ (creq[r].pc = "awaitGet" /\ creq[r].op \in {"update", "remove"}
                 /\ creq'[r] # creq[r]
                 /\ FindItem(StoredCart(creq[r].userId).items, creq[r].productId) = 0) =>
                    (creq'[r].pc = "done" /\ creq'[r].status = 404
                     /\ creq'[r].error # "" /\ redis' = redis)
             /\ (creq[r].pc = "awaitProduct" /\ creq[r].op \in {"add", "update"}
                 /\ creq'[r].product.kind = "notfound") =>
                    (creq'[r].pc = "done" /\ creq'[r].status = 404
                     /\ creq'[r].error # "" /\ redis' = redis)]_vars

\* the same without the update handler's product lookup
C10_ExceptUpdateLookup ==
    [][/\ (pRes' # pRes /\ pRes'.op \in {"get", "update", "delete", "stock"}
           /\ FindIndex(products, pRes'.id) = 0) =>
              (pRes'.status = 404 /\ pRes'.error # "" /\ products' = products)
       /\ \A r \in Slots :
             /\ (creq[r].pc = "awaitGet" /\ creq[r].op \in {"update", "remove"}
                 /\ creq'[r] # creq[r]
                 /\ FindItem(StoredCart(creq[r].userId).items, creq[r].productId) = 0) =>
                    (creq'[r].pc = "done" /\ creq'[r].status = 404
                     /\ creq'[r].error # "" /\ redis' = redis)
             /\ (creq[r].pc = "awaitProduct" /\ creq[r].op = "add"
                 /\ creq'[r].product.kind = "notfound") =>
                    (creq'[r].pc = "done" /\ creq'[r].status = 404
                     /\ creq'[r].error # "" /\ redis' = redis)]_vars

----------------------------------------------------------------------------
(* Cart service: expiry *)

\* request r answers 200 to an add, update, remove or clear in this step
WriteSucceeds(r, u) ==
    /\ creq[r].userId = u
    /\ creq[r].op \in {"add", "update", "remove", "clear"}
    /\ creq[r].pc # "done"
    /\ creq'[r].pc = "done"
    /\ creq'[r].status = 200

\* C11: a cart expires 24 hours after the last successful write to it: each
\* successful add, update, remove or clear sets the expiry to 24 hours from
\* that write; a read, a rejected request or a request still in progress
\* leaves the key and its expiry as they are; the key stays until its expiry
\* is reached and is gone from then on; a GET /cart that finds no key answers
\* the empty cart of that user.
C11_ExpiresAfterLastWrite ==
    [][\A u \in Users :
          LET k == getCartKey(u)
              written == \E r \in Slots : WriteSucceeds(r, u)
          IN  /\ written =>
                    /\ redis'[k].val # <<>>
                    /\ redis'[k].expireAt = now + CART_TTL
              /\ (~written /\ redis[k].val # <<>>) =>
                    IF redis[k].expireAt <= now'
                    THEN redis'[k] = NoKey
                    ELSE redis'[k] = redis[k]
              /\ (~written /\ redis[k].val = <<>>) => redis'[k] = NoKey
              /\ redis'[k].val # <<>> => now' < redis'[k].expireAt
              /\ \A r \in Slots :
                    (/\ creq[r].op = "get" /\ creq[r].userId = u
                     /\ creq[r].pc = "awaitGet" /\ creq'[r].pc = "done"
                     /\ redis[k].val = <<>>) =>
                        /\ creq'[r].status = 200
                        /\ creq'[r].cart = EmptyCart(u)]_vars

\* a cart written at 12 h is still there at 24 h, a read at 24 h has answered
\* it and the expiry is still 24 h after that write
C11_Witness ==
    /\ now = CART_TTL
    /\ creq[1].op = "get" /\ creq[1].pc = "done" /\ creq[1].status = 200
    /\ creq[1].cart.items # <<>>
    /\ redis[getCartKey("user123")].val = <<Stringify(creq[1].cart)>>
    /\ redis[getCartKey("user123")].expireAt = TickSeconds + CART_TTL

\* a read at or after 24 h of a cart that has expired answers the empty cart
C11_ExpiredWitness ==
    /\ now >= CART_TTL
    /\ creq[1].op = "get" /\ creq[1].pc = "done" /\ creq[1].status = 200
    /\ creq[1].cart = EmptyCart("user123")
    /\ redis[getCartKey("user123")] = NoKey

----------------------------------------------------------------------------
(* Cart service: two requests of one user in flight *)

\* the requests the two clients send: products '1' and '2', quantities 0, 50
RaceProductIds == {0, 1, 2}

RaceQuantities == {0, 50}

RaceInputs(r) ==
    /\ creq'[r].productId \in RaceProductIds
    /\ creq'[r].quantity \in RaceQuantities

\* the default user's requests handled two at a time: each handler runs to
\* its next await, then either request may go on
CartRaceNext ==
    \/ \E r \in Slots : GetCart(r, "") /\ RaceInputs(r)
    \/ \E r \in Slots : AddItem(r, "") /\ RaceInputs(r)
    \/ \E r \in Slots : UpdateItem(r, "") /\ RaceInputs(r)
    \/ \E r \in Slots : RemoveItem(r, "") /\ RaceInputs(r)
    \/ \E r \in Slots : ClearCart(r, "") /\ RaceInputs(r)
    \/ \E r \in Slots : CartSaved(r)
    \/ \E r \in Slots : CartDone(r)

SpecCartRace == Init /\ [][CartRaceNext]_vars

\* x-user-id of the client on each connection: the first sends none or names
\* the default user, the second is another user
UserHeaders == <<{"", "user123"}, {"u1"}>>

\* the requests of two users handled at the same time
CartUsersNext ==
    \/ \E r \in Slots : \E header \in UserHeaders[r] : GetCart(r, header) /\ RaceInputs(r)
    \/ \E r \in Slots : \E header \in UserHeaders[r] : AddItem(r, header) /\ RaceInputs(r)
    \/ \E r \in Slots : \E header \in UserHeaders[r] : UpdateItem(r, header) /\ RaceInputs(r)
    \/ \E r \in Slots : \E header \in UserHeaders[r] : RemoveItem(r, header) /\ RaceInputs(r)
    \/ \E r \in Slots : \E header \in UserHeaders[r] : ClearCart(r, header) /\ RaceInputs(r)
    \/ \E r \in Slots : CartSaved(r)
    \/ \E r \in Slots : CartDone(r)

SpecCartUsers == Init /\ [][CartUsersNext]_vars

\* what a mutating request does to a cart when it runs alone on it; a request
\* that finds its item missing leaves the cart as it is
ApplyRequest(q, cart) ==
    LET itemIndex == FindItem(cart.items, q.productId)
    IN  CASE q.op = "add" -> AddToCart(cart, q.product, q.productId, q.quantity)
          [] q.op = "update" ->
                IF itemIndex = 0 THEN cart
                ELSE IF q.quantity = 0 THEN RemoveFromCart(cart, itemIndex)
                ELSE SetQuantity(cart, itemIndex, q.quantity)
          [] q.op = "remove" ->
                IF itemIndex = 0 THEN cart ELSE RemoveFromCart(cart, itemIndex)
          [] q.op = "clear" -> EmptyCart(cart.userId)
          [] OTHER -> cart

Succeeded(q) ==
    /\ q.op \in {"add", "update", "remove", "clear"}
    /\ q.pc = "done"
    /\ q.status = 200

\* C12: when a mutating request of a user stores its cart and answers 200
\* while another mutating request of the same user has answered 200, the
\* stored cart is what the two requests give when applied one after the
\* other, in one order or the other: this request applied to the cart the
\* other one stored, or the other one applied to the cart this one computed.
C12_ConcurrentWritesSerialize ==
    [][\A r \in Slots : \A q \in Slots \ {r} :
          (/\ creq[r].pc = "awaitSet" /\ Succeeded(creq'[r])
           /\ Succeeded(creq[q]) /\ creq[q].userId = creq[r].userId) =>
              LET before == StoredCart(creq[r].userId)
                  after == Parse(redis'[getCartKey(creq[r].userId)].val[1])
              IN  \/ after = ApplyRequest(creq'[r], before)
                  \/ after = ApplyRequest(creq[q], creq[r].cart)]_vars

----------------------------------------------------------------------------
(* Product service: properties *)

\* the first position of id in the catalog ps, 0 when it is not there
PositionOf(ps, id) ==
    IF \E i \in 1..Len(ps) : ps[i].id = id
    THEN CHOOSE i \in 1..Len(ps) : ps[i].id = id /\ \A j \in 1..(i - 1) : ps[j].id # id
    ELSE 0

\* C13: every step of the product service is one whole request, looked up in
\* and applied to the catalog as the previous request left it: a 404 names an
\* id that is not in that catalog, a get or stock 200 names one that is, a
\* list counts the products of that catalog, a create appends to it, an
\* update changes only the first product with the id, a delete removes
\* exactly that product; nothing else changes the catalog. The requests are
\* therefore served one after the other in the order of their steps.
C13_HandlersAreAtomic ==
    [][/\ pRes'.status = 404 =>
             (PositionOf(products, pRes'.id) = 0 /\ products' = products)
       /\ (pRes'.op \in {"get", "stock"} /\ pRes'.status = 200) =>
             (PositionOf(products, pRes'.id) # 0 /\ products' = products)
       /\ pRes'.op = "list" =>
             /\ products' = products
             /\ pRes'.total <= Len(products)
             /\ \A i \in 1..pRes'.total :
                   \E j \in 1..Len(products) : pRes'.products[i] = products[j]
       /\ (pRes'.op = "create" /\ pRes'.status = 201) =>
             /\ Len(products') = Len(products) + 1
             /\ SubSeq(products', 1, Len(products)) = products
             /\ products'[Len(products')].id = pRes'.id
       /\ (pRes'.op = "update" /\ pRes'.status = 200) =>
             LET i == PositionOf(products, pRes'.id)
             IN  /\ i # 0
                 /\ Len(products') = Len(products)
                 /\ \A j \in 1..Len(products) : j # i => products'[j] = products[j]
                 /\ products'[i].id = pRes'.id
       /\ (pRes'.op = "delete" /\ pRes'.status = 200) =>
             LET i == PositionOf(products, pRes'.id)
             IN  /\ i # 0
                 /\ products' = SubSeq(products, 1, i - 1)
                                   \o SubSeq(products, i + 1, Len(products))
       /\ products' # products =>
             \/ pRes'.op = "create" /\ pRes'.status = 201
             \/ pRes'.op \in {"update", "delete"} /\ pRes'.status = 200
       /\ pRes'.status = 400 => products' = products]_vars

\* product '1' was deleted, then product '2' was updated where it is now
C13_Witness ==
    /\ pRes.op = "update" /\ pRes.id = 2 /\ pRes.status = 200
    /\ pOps = 2
    /\ Len(products) = 1
    /\ products[1].id = 2
    /\ products[1].stock = 3

\* C15: the products of the catalog have pairwise distinct ids, so an id
\* addresses at most one product, and a create never answers with the id of
\* a product that is already in the catalog.
C15_DistinctProductIds ==
    /\ \A i \in 1..Len(products), j \in 1..Len(products) :
          i # j => products[i].id # products[j].id
    /\ (pRes.op = "create" /\ pRes.status = 201) =>
          \A i \in 1..(Len(products) - 1) : products[i].id # pRes.id

\* C18: every product of the catalog has a non-negative price and a
\* non-negative stock, after creates and after updates.
C18_NonNegativePriceAndStock ==
    \A i \in 1..Len(products) : products[i].price >= 0 /\ products[i].stock >= 0

\* the create half of C18: no create stores a negative price or stock
C18_CreateRejectsNegative ==
    [][(pRes'.op = "create" /\ products' # products) =>
          /\ products'[Len(products')].price >= 0
          /\ products'[Len(products')].stock >= 0]_vars

----------------------------------------------------------------------------
(* Gateway: order of the stages *)

CorsHasActed == gwRes.headers["access-control-allow-origin"] # ""

\* C14: the logger records the request before any stage can answer it: the
\* Auth Gate has decided, the proxy has forwarded or a response has been
\* sent (by the CORS stage, the Auth Gate, a route or the 404 fallback) only
\* for a request that is logged, and its completion is logged too; the Auth
\* Gate decides before the proxy forwards on the routes that require it; a
\* request gets one response, never two.
C14_LoggedBeforeAnyResponse ==
    /\ (gwAuth # {} \/ Forwarded \/ gwRes.sent > 0) => gwLog.in
    /\ gwStage = "done" => (gwRes.sent = 1 /\ gwLog.out)
    /\ gwRes.sent <= 1
    /\ (Forwarded /\ gwReq.method \in {"POST", "PUT", "DELETE"} /\ IsProductPath) =>
          gwAuth = {"next"}

\* what holds of C14 in the registration order of the code (CORS, logger,
\* routes, 404) for every request other than OPTIONS
C14_ExceptPreflight ==
    /\ gwLog.in => CorsHasActed
    /\ (gwStage # "idle" /\ gwReq.method # "OPTIONS") =>
          /\ (gwAuth # {} \/ Forwarded \/ gwRes.sent > 0) => gwLog.in
          /\ gwStage = "done" => (gwRes.sent = 1 /\ gwLog.out)
          /\ gwRes.sent <= 1
          /\ (Forwarded /\ gwReq.method \in {"POST", "PUT", "DELETE"} /\ IsProductPath) =>
                gwAuth = {"next"}
    /\ (gwStage = "done" /\ gwReq.method = "OPTIONS") =>
          (gwRes.status = 204 /\ gwRes.sent = 1 /\ ~gwLog.in /\ ~gwLog.out)

----------------------------------------------------------------------------
(* Cart service: stock and cart invariants *)

\* the line of the request's product in the cart that request r has just
\* stored (the last one, which is the one an add has appended)
StoredLine(r) ==
    LET stored == Parse(redis'[getCartKey(creq[r].userId)].val[1])
        Lines == {i \in 1..Len(stored.items) :
                     stored.items[i].productId = creq[r].product.id}
    IN  stored.items[CHOOSE i \in Lines : \A j \in Lines : j <= i]

\* C16: when an add-item or an update-item with quantity > 0 answers 200, the
\* quantity of that product's line in the cart it stored is at most the stock
\* the product service reported to that request.
C16_LineWithinReportedStock ==
    [][\A r \in Slots :
          (/\ creq[r].op \in {"add", "update"} /\ creq[r].quantity > 0
           /\ creq[r].pc = "awaitSet" /\ Succeeded(creq'[r])) =>
              /\ FindItem(creq[r].cart.items, creq[r].product.id) # 0
              /\ StoredLine(r).quantity <= creq[r].product.stock]_vars

\* the same for updates, and for adds of a product that was not in the cart
\* the request read
C16_ExceptAddToExistingLine ==
    [][\A r \in Slots :
          (/\ creq[r].op \in {"add", "update"} /\ creq[r].quantity > 0
           /\ creq[r].pc = "awaitSet" /\ Succeeded(creq'[r])
           /\ (creq[r].op = "add" => StoredLine(r).quantity = creq[r].quantity)) =>
              /\ FindItem(creq[r].cart.items, creq[r].product.id) # 0
              /\ StoredLine(r).quantity <= creq[r].product.stock]_vars

CartWellFormed(cart) ==
    /\ cart.total = SubtotalsUpTo(cart.items, Len(cart.items))
    /\ cart.itemCount = QuantitiesUpTo(cart.items, Len(cart.items))
    /\ \A i \in 1..Len(cart.items) :
          /\ cart.items[i].subtotal = cart.items[i].price * cart.items[i].quantity
          /\ cart.items[i].quantity >= 1
    /\ \A i \in 1..Len(cart.items), j \in 1..Len(cart.items) :
          i # j => cart.items[i].productId # cart.items[j].productId

\* C17: every stored cart has total the sum of its items' subtotals,
\* itemCount the sum of their quantities, every item with subtotal = price *
\* quantity and quantity >= 1, and no two items with the same productId.
C17_StoredCartsWellFormed ==
    \A u \in Users :
        redis[getCartKey(u)].val # <<>> => CartWellFormed(StoredCart(u))

\* the arithmetic part of C17, which holds whatever the productIds are
C17_TotalsAndQuantities ==
    \A u \in Users :
        redis[getCartKey(u)].val # <<>> =>
            LET cart == StoredCart(u)
            IN  /\ cart.total = SubtotalsUpTo(cart.items, Len(cart.items))
                /\ cart.itemCount = QuantitiesUpTo(cart.items, Len(cart.items))
                /\ \A i \in 1..Len(cart.items) :
                      /\ cart.items[i].subtotal =
                            cart.items[i].price * cart.items[i].quantity
                      /\ cart.items[i].quantity >= 1

----------------------------------------------------------------------------
(* Cart service: isolation of the users *)

\* the user each client's requests are for: the first sends no x-user-id or
\* names user123, the second names u1
ClientUser == <<"user123", "u1">>

\* the Redis key that holds the cart of each user
KeyOf == [u \in Users |-> IF u = "user123" THEN "cart:user123" ELSE "cart:u1"]

\* C19: a step of a cart request made for user u leaves the key of every
\* other user, value and expiry, as it is; what the request reads is the cart
\* stored under u's key (the empty cart of u when there is none), what it
\* writes it writes under u's key and it is a cart of u; a request without
\* x-user-id, like one that names user123, acts for user123.
C19_UsersAreIsolated ==
    [][\A r \in Slots :
          creq'[r] # creq[r] =>
              LET u == IF creq[r].pc = "idle" THEN creq'[r].userId ELSE creq[r].userId
              IN  /\ u = ClientUser[r]
                  /\ creq'[r].pc # "idle" => creq'[r].userId = u
                  /\ \A v \in Users \ {u} : redis'[KeyOf[v]] = redis[KeyOf[v]]
                  /\ (creq[r].pc = "awaitGet" /\ creq[r].op = "get") =>
                        creq'[r].cart =
                            IF redis[KeyOf[u]].val = <<>> THEN EmptyCart(u)
                            ELSE Parse(redis[KeyOf[u]].val[1])
                  /\ creq'[r].cart.userId \in {u, ""}
                  /\ creq[r].pc = "awaitSet" =>
                        /\ redis'[KeyOf[u]].val = <<Stringify(creq[r].cart)>>
                        /\ creq[r].cart.userId = u
                  /\ creq[r].pc # "awaitSet" => redis' = redis]_vars

\* both users have a cart of their own, with different products, while a
\* request of each is being handled
C19_Witness ==
    /\ redis[KeyOf["user123"]].val # <<>>
    /\ redis[KeyOf["u1"]].val # <<>>
    /\ StoredCart("user123").userId = "user123"
    /\ StoredCart("u1").userId = "u1"
    /\ Len(StoredCart("user123").items) = 1
    /\ Len(StoredCart("u1").items) = 1
    /\ StoredCart("user123").items[1].productId = 1
    /\ StoredCart("u1").items[1].productId = 2
    /\ creq[1].userId = "user123" /\ creq[1].op = "add" /\ creq[1].pc = "awaitSet"
    /\ creq[2].userId = "u1" /\ creq[2].op = "remove" /\ Succeeded(creq[2])

====
